---- MODULE Spec2Model ----
(***************************************************************************)
(* Model of the local scanner of src/scanner.py: the signature store       *)
(* (load_signatures, reload_signatures, add_signature), the static         *)
(* inspection (quick_static_checks), the enumeration (list_targets) and    *)
(* the two scan entry points (scan_folder_json, scan_file_json).           *)
(*                                                                         *)
(* Python values are represented as follows.                               *)
(*   - a dict is the sequence of its <<key, value>> items in insertion     *)
(*     order (keys unique);                                                *)
(*   - an optional value is None (<<>>) or Some(v) (<<v>>);                *)
(*   - a str or bytes value that the code searches in is named by a        *)
(*     string and spelled, character by character, by Chars.               *)
(* The documents considered are JSON objects whose values are objects of   *)
(* strings (metadata records, and _patterns as name -> regex source).      *)
(***************************************************************************)
EXTENDS Integers, Sequences, FiniteSets, TLC

VARIABLES
    sigfile,     \* the file SIGFILE on disk
    SIGNATURES,  \* the module global SIGNATURES of scanner.py
    last,        \* the last completed call: its arguments, result, pre-state
    added,       \* Some(<<sha256, meta>>) of the last successful add_signature
                 \* while only reload_signatures and scans followed it
    nops,        \* number of add_signature/reload_signatures calls so far
    pc,          \* concurrent runs: the position of each thread
    loc          \* concurrent runs: the local variables of each thread

vars == <<sigfile, SIGNATURES, last, added, nops, pc, loc>>

(* ----------------------------- bounds --------------------------------- *)

\* add_signature/reload_signatures calls in one sequential run
MaxOps == 3

(* -------------------------- Python values ----------------------------- *)

None == <<>>
Some(x) == <<x>>

\* dict: k in d
Has(d, k) == \E i \in DOMAIN d : d[i][1] = k
Index(d, k) == CHOOSE i \in DOMAIN d : d[i][1] = k
\* dict.get(k): the value, or None
DictGet(d, k) == IF Has(d, k) THEN Some(d[Index(d, k)][2]) ELSE None
\* d[k] = v: in place for a key already there, else appended
DictSet(d, k, v) ==
    IF Has(d, k) THEN [d EXCEPT ![Index(d, k)] = <<k, v>>] ELSE Append(d, <<k, v>>)
DictKeys(d) == {d[i][1] : i \in DOMAIN d}

\* "x in list" for a Python list
InList(x, l) == \E i \in DOMAIN l : l[i] = x

(* ------------------------------ text ---------------------------------- *)

\* the spelling of every str and bytes value of the model
Chars ==
      ("su" :> <<"s", "u">>) @@
      ("superuser" :> <<"s", "u", "p", "e", "r", "u", "s", "e", "r">>) @@
      ("/proc/" :> <<"/", "p", "r", "o", "c", "/">>) @@
      ("Runtime.getRuntime" :> <<"R", "u", "n", "t", "i", "m", "e", ".", "g", "e", "t", "R", "u", "n", "t", "i", "m", "e">>) @@
      ("dexclassloader" :> <<"d", "e", "x", "c", "l", "a", "s", "s", "l", "o", "a", "d", "e", "r">>) @@
      ("socket" :> <<"s", "o", "c", "k", "e", "t">>) @@
      ("exec(" :> <<"e", "x", "e", "c", "(">>) @@
      ("eval(" :> <<"e", "v", "a", "l", "(">>) @@
      ("https://" :> <<"h", "t", "t", "p", "s", ":", "/", "/">>) @@
      ("http://" :> <<"h", "t", "t", "p", ":", "/", "/">>) @@
      ("adb" :> <<"a", "d", "b">>) @@
      ("install" :> <<"i", "n", "s", "t", "a", "l", "l">>) @@
      ("dex" :> <<"d", "e", "x">>) @@
      (".xml" :> <<".", "x", "m", "l">>) @@
      (".txt" :> <<".", "t", "x", "t">>) @@
      (".properties" :> <<".", "p", "r", "o", "p", "e", "r", "t", "i", "e", "s">>) @@
      (".json" :> <<".", "j", "s", "o", "n">>) @@
      (".manifest" :> <<".", "m", "a", "n", "i", "f", "e", "s", "t">>) @@
      (".smali" :> <<".", "s", "m", "a", "l", "i">>) @@
      (".dex" :> <<".", "d", "e", "x">>) @@
      (".js" :> <<".", "j", "s">>) @@
      (".apk" :> <<".", "a", "p", "k">>) @@
      (".doc" :> <<".", "d", "o", "c">>) @@
      (".docx" :> <<".", "d", "o", "c", "x">>) @@
      (".zip" :> <<".", "z", "i", "p">>) @@
      (".jar" :> <<".", "j", "a", "r">>) @@
      (".rar" :> <<".", "r", "a", "r">>) @@
      (".xls" :> <<".", "x", "l", "s">>) @@
      (".xlsx" :> <<".", "x", "l", "s", "x">>) @@
      (".pdf" :> <<".", "p", "d", "f">>) @@
      (".exe" :> <<".", "e", "x", "e">>) @@
      (".bin" :> <<".", "b", "i", "n">>) @@
      ("ok" :> <<"o", "k">>) @@
      ("http://evil.test" :> <<"h", "t", "t", "p", ":", "/", "/", "e", "v", "i", "l", ".", "t", "e", "s", "t">>) @@
      ("DexClassLoader" :> <<"D", "e", "x", "C", "l", "a", "s", "s", "L", "o", "a", "d", "e", "r">>) @@
      ("SuperUser" :> <<"S", "u", "p", "e", "r", "U", "s", "e", "r">>) @@
      ("evil" :> <<"e", "v", "i", "l">>) @@
      ("DEX" :> <<"D", "E", "X">>) @@
      ("a.apk" :> <<"a", ".", "a", "p", "k">>) @@
      ("b.pdf" :> <<"b", ".", "p", "d", "f">>) @@
      ("c.bin" :> <<"c", ".", "b", "i", "n">>) @@
      ("notes.txt" :> <<"n", "o", "t", "e", "s", ".", "t", "x", "t">>) @@
      ("d.DOCX" :> <<"d", ".", "D", "O", "C", "X">>) @@
      ("e.exe" :> <<"e", ".", "e", "x", "e">>) @@
      ("f.rar" :> <<"f", ".", "r", "a", "r">>) @@
      ("AndroidManifest.xml" :> <<"A", "n", "d", "r", "o", "i", "d", "M", "a", "n", "i", "f", "e", "s", "t", ".", "x", "m", "l">>) @@
      ("strings.TXT" :> <<"s", "t", "r", "i", "n", "g", "s", ".", "T", "X", "T">>) @@
      ("icon.png" :> <<"i", "c", "o", "n", ".", "p", "n", "g">>) @@
      ("broken.json" :> <<"b", "r", "o", "k", "e", "n", ".", "j", "s", "o", "n">>) @@
      ("lib.smali" :> <<"l", "i", "b", ".", "s", "m", "a", "l", "i">>) @@
      ("d\\xffex" :> <<"d", "\\xff", "e", "x">>)
\* str.lower() on the ASCII letters
TO_LOWER ==
    ("A" :> "a") @@ ("B" :> "b") @@ ("C" :> "c") @@ ("D" :> "d") @@ ("E" :> "e") @@ ("F" :> "f") @@
    ("G" :> "g") @@ ("H" :> "h") @@ ("I" :> "i") @@ ("J" :> "j") @@ ("K" :> "k") @@ ("L" :> "l") @@
    ("M" :> "m") @@ ("N" :> "n") @@ ("O" :> "o") @@ ("P" :> "p") @@ ("Q" :> "q") @@ ("R" :> "r") @@
    ("S" :> "s") @@ ("T" :> "t") @@ ("U" :> "u") @@ ("V" :> "v") @@ ("W" :> "w") @@ ("X" :> "x") @@
    ("Y" :> "y") @@ ("Z" :> "z")

\* str.lower(), one character
LowerChar(c) == IF c \in DOMAIN TO_LOWER THEN TO_LOWER[c] ELSE c
\* str.lower()
Lower(s) == [i \in DOMAIN s |-> LowerChar(s[i])]

\* bytes.decode(errors="ignore"): the bytes that are no valid UTF-8 are dropped
IsValidByte(b) == b # "\\xff"
Decode(bytes) == SelectSeq(bytes, IsValidByte)

\* "sub in text" for two str
Contains(text, sub) ==
    \E i \in 1..(Len(text) - Len(sub) + 1) :
        \A j \in 1..Len(sub) : text[i + j - 1] = sub[j]

\* str.endswith(suffix)
EndsWith(s, suffix) ==
    /\ Len(suffix) <= Len(s)
    /\ \A j \in 1..Len(suffix) : s[Len(s) - Len(suffix) + j] = suffix[j]

\* f.read(n) on a file of these bytes
ReadLimit == 200000
ReadChunk(bytes, n) == SubSeq(bytes, 1, IF Len(bytes) < n THEN Len(bytes) ELSE n)

SUSPICIOUS_SUBSTRINGS ==
    <<"su", "superuser", "/proc/", "Runtime.getRuntime", "dexclassloader",
      "socket", "exec(", "eval(", "https://", "http://", "adb", "install", "dex">>

(* --------------------------- regular expressions ---------------------- *)

\* The regex sources of the documents considered: literals, and two sources
\* that re.compile rejects (an unbalanced parenthesis, an unterminated set).
BAD_REGEX == {"(", "[a"}
\* re.compile(pat, re.IGNORECASE) raises
CompileRaises(pat) == pat \in BAD_REGEX
\* cre.search(data) for the compiled literal pat, case-insensitive
Search(pat, data) == Contains(Lower(data), Lower(Chars[pat]))

(* --------------------------- the signature file ----------------------- *)

\* The file on disk: whether it exists, its permissions ("rw", "ro": no
\* write, "none": no read and no write), whether its text is a complete JSON
\* document, the top-level items its text holds (all of them when
\* complete, those written in full before the writer stopped otherwise) and
\* the length of its text.
MISSING_FILE ==
    [exists |-> FALSE, perm |-> "rw", complete |-> FALSE, doc |-> <<>>, len |-> 0]
TextFile(perm, complete, doc, len) ==
    [exists |-> TRUE, perm |-> perm, complete |-> complete, doc |-> doc, len |-> len]

\* open(path, "r") raises
OpenReadRaises(f) == ~f.exists \/ f.perm = "none"
\* open(path, "w") raises; it creates a missing file
OpenWriteRaises(f) == f.exists /\ f.perm # "rw"
\* json.load(f) raises: the text is not a JSON document
JsonLoadRaises(f) == ~f.complete

\* A value json.dump cannot serialize (a Python set)
PY_SET == "set()"
SerializableField(field) == field[2] # PY_SET
Serializable(value) == \A i \in DOMAIN value : SerializableField(value[i])
\* json.dump(data, f) raises TypeError
JsonDumpRaises(data) == \E i \in DOMAIN data : ~Serializable(data[i][2])

\* len(s) of the strings of the documents; a digest is 64 hex characters
STRLEN ==
    ("sha_zipA" :> 64) @@ ("sha_su" :> 64) @@ ("sha_ok" :> 64) @@
    ("sha_http" :> 64) @@ ("sha_rt" :> 64) @@ ("_patterns" :> 9) @@
    ("severity" :> 8) @@ ("name" :> 4) @@ ("tags" :> 4) @@ ("high" :> 4) @@
    ("low" :> 3) @@ ("EvilSample" :> 10) @@ ("NoSeverity" :> 10) @@
    ("r_evil" :> 6) @@ ("r_paren" :> 7) @@ ("r_dex" :> 5) @@ ("r_set" :> 5) @@
    ("evil" :> 4) @@ ("(" :> 1) @@ ("DEX" :> 3) @@ ("[a" :> 2)

\* The text json.dump(data, f, indent=2) writes, by its length:
\*   {  then per item  [,] \n__"key":_value  then  \n}
\*   value: {}  or  {  then per field  [,] \n____"name":_"text"  then  \n__}
FieldLen(field) == 5 + (STRLEN[field[1]] + 2) + 2 + (STRLEN[field[2]] + 2)
RECURSIVE FieldsLen(_)
FieldsLen(fields) ==
    IF fields = <<>> THEN 0
    ELSE FieldLen(Head(fields)) + FieldsLen(Tail(fields))
Commas(n) == IF n > 1 THEN n - 1 ELSE 0
ValueLen(value) ==
    IF value = <<>> THEN 2
    ELSE 1 + FieldsLen(value) + Commas(Len(value)) + 4
KeyLen(item) == 3 + (STRLEN[item[1]] + 2) + 2
RECURSIVE ItemsLen(_)
ItemsLen(items) ==
    IF items = <<>> THEN 0
    ELSE KeyLen(Head(items)) + ValueLen(Head(items)[2]) + ItemsLen(Tail(items))
JsonTextLen(data) ==
    IF data = <<>> THEN 2
    ELSE 1 + ItemsLen(data) + Commas(Len(data)) + 2

\* The first item, and its first field, that json.dump cannot serialize
FirstBadItem(data) ==
    CHOOSE i \in DOMAIN data :
        /\ ~Serializable(data[i][2])
        /\ \A j \in 1..(i - 1) : Serializable(data[j][2])
FirstBadField(value) ==
    CHOOSE i \in DOMAIN value :
        /\ ~SerializableField(value[i])
        /\ \A j \in 1..(i - 1) : SerializableField(value[j])

\* The items json.dump has written in full when it returns or raises: it
\* writes the document piece by piece, so a value it cannot serialize
\* leaves what comes before it in the file.
JsonDumpWritten(data) ==
    IF JsonDumpRaises(data) THEN SubSeq(data, 1, FirstBadItem(data) - 1)
    ELSE data

\* The length of the text json.dump has written when it returns or raises
JsonDumpLen(data) ==
    IF JsonDumpRaises(data)
    THEN LET b == FirstBadItem(data)
             value == data[b][2]
             j == FirstBadField(value)
         IN  1 + ItemsLen(SubSeq(data, 1, b - 1)) + (b - 1) + KeyLen(data[b])
               + 1 + FieldsLen(SubSeq(value, 1, j - 1)) + (j - 1)
               + 5 + (STRLEN[value[j][1]] + 2) + 2
    ELSE JsonTextLen(data)

(* ------------------------------ load_signatures ----------------------- *)

EMPTY_DB == << <<"_compiled_patterns", <<>> >> >>

\* scanner.py 32-38: compile each rule, skip the ones that do not compile.
\* A compiled pattern is represented by its source.
RECURSIVE CompilePatterns(_, _)
CompilePatterns(items, compiled) ==
    IF items = <<>> THEN compiled
    ELSE LET name == Head(items)[1]
             pat == Head(items)[2]
         IN  CompilePatterns(Tail(items),
                 IF CompileRaises(pat) THEN compiled
                 ELSE DictSet(compiled, name, pat))

\* the mutant: one bad pattern aborts the load (the inner try is missing)
load_signatures_abort(f) ==
    IF OpenReadRaises(f) \/ JsonLoadRaises(f) THEN EMPTY_DB
    ELSE LET data == f.doc
             patterns == IF Has(data, "_patterns")
                         THEN DictGet(data, "_patterns")[1] ELSE <<>>
         IN  IF \E i \in DOMAIN patterns : CompileRaises(patterns[i][2])
             THEN EMPTY_DB
             ELSE DictSet(data, "_compiled_patterns",
                          CompilePatterns(patterns, <<>>))

\* scanner.py 26-42
load_signatures(f) ==
    IF OpenReadRaises(f) \/ JsonLoadRaises(f) THEN EMPTY_DB
    ELSE LET data == f.doc
             patterns == IF Has(data, "_patterns")
                         THEN DictGet(data, "_patterns")[1] ELSE <<>>
         IN  DictSet(data, "_compiled_patterns", CompilePatterns(patterns, <<>>))

\* SIGNATURES.get("_compiled_patterns", {})
CompiledPatterns(sigs) ==
    IF Has(sigs, "_compiled_patterns")
    THEN DictGet(sigs, "_compiled_patterns")[1] ELSE <<>>

(* ------------------------------ add_signature ------------------------- *)

\* scanner.py 164-167 raise: the file exists and cannot be opened or parsed
AddReadRaises(f) == f.exists /\ (OpenReadRaises(f) \/ JsonLoadRaises(f))

\* the mutant: the document is rebuilt from scratch (the file is not read)
AddData_fresh(f, sha256, meta) == DictSet(<<>>, sha256, meta)

\* scanner.py 164-168: the document read, with data[sha256] = meta
AddData(f, sha256, meta) ==
    DictSet(IF f.exists THEN f.doc ELSE <<>>, sha256, meta)

\* open(SIGFILE, "w") on a file that can be written: the file is created or
\* truncated
Truncated(f) == TextFile("rw", FALSE, <<>>, 0)

\* scanner.py 169-170: the file once json.dump has run and the file is
\* closed. The text is written at offset 0; text that another writer put
\* there since the file was opened stays behind where it is longer.
WriteAtStart(f, data) ==
    IF JsonDumpLen(data) >= f.len
    THEN TextFile("rw", ~JsonDumpRaises(data), JsonDumpWritten(data),
                  JsonDumpLen(data))
    ELSE TextFile("rw", FALSE, JsonDumpWritten(data), f.len)

\* the mutant: an entry already there is kept (setdefault)
AddFile_keep(f, sha256, meta) ==
    IF AddReadRaises(f) \/ OpenWriteRaises(f) THEN f
    ELSE WriteAtStart(Truncated(f),
             IF f.exists /\ Has(f.doc, sha256) THEN f.doc
             ELSE AddData(f, sha256, meta))

\* scanner.py 164-170: the file after the call
AddFile(f, sha256, meta) ==
    IF AddReadRaises(f) \/ OpenWriteRaises(f) THEN f
    ELSE WriteAtStart(Truncated(f), AddData(f, sha256, meta))

\* scanner.py 172, 174: the value returned
AddReturns(f, sha256, meta) ==
    ~(\/ AddReadRaises(f)
      \/ OpenWriteRaises(f)
      \/ JsonDumpRaises(AddData(f, sha256, meta)))

(* ------------------------------ the files scanned --------------------- *)

ZipEntry(name, readable, bytes) ==
    [name |-> name, readable |-> readable, bytes |-> bytes]
RawFile(name, readable, bytes) ==
    [name |-> name, zip |-> FALSE, readable |-> readable, stat |-> TRUE,
     content |-> bytes, size |-> Len(Chars[bytes]), entries |-> <<>>]
ZipFile(name, content, size, entries) ==
    [name |-> name, zip |-> TRUE, readable |-> TRUE, stat |-> TRUE,
     content |-> content, size |-> size, entries |-> entries]

\* The files on disk, by path: the file name, whether zipfile.is_zipfile
\* holds, whether the file can be opened and stat'd, its content, and for a
\* zip its entries (name, whether z.read succeeds, the entry's bytes).
FILES ==
    ("/r1/a.apk" :> ZipFile("a.apk", "zipA", 640,
        << ZipEntry("AndroidManifest.xml", TRUE, "DexClassLoader"),
           ZipEntry("icon.png", TRUE, "http://evil.test"),
           ZipEntry("broken.json", FALSE, "superuser"),
           ZipEntry("strings.TXT", TRUE, "d\\xffex"),
           ZipEntry("lib.smali", TRUE, "SuperUser") >>)) @@
    ("/r1/notes.txt" :> RawFile("notes.txt", TRUE, "http://evil.test")) @@
    ("/r1/c.bin" :> RawFile("c.bin", FALSE, "ok")) @@
    ("/r1/b.pdf" :> RawFile("b.pdf", TRUE, "http://evil.test")) @@
    ("/r1/sub/e.exe" :> RawFile("e.exe", TRUE, "superuser")) @@
    ("/r1/sub/f.rar" :> RawFile("f.rar", TRUE, "Runtime.getRuntime")) @@
    ("/r2/d.DOCX" :> RawFile("d.DOCX", TRUE, "ok")) @@
    ("/r2/a.apk" :> ZipFile("a.apk", "zipB", 320,
        << ZipEntry("AndroidManifest.xml", TRUE, "http://evil.test"),
           ZipEntry("lib.smali", TRUE, "DexClassLoader") >>))

\* The directories, as os.walk sees them: sub-directories and files, each
\* file given by the path os.path.join(dirpath, fname).
TREE ==
    ("/r1" :> [dirs |-> <<"/r1/sub">>,
               files |-> <<"/r1/a.apk", "/r1/notes.txt", "/r1/c.bin", "/r1/b.pdf">>]) @@
    ("/r1/sub" :> [dirs |-> <<>>, files |-> <<"/r1/sub/e.exe", "/r1/sub/f.rar">>]) @@
    ("/r2" :> [dirs |-> <<>>, files |-> <<"/r2/d.DOCX", "/r2/a.apk">>]) @@
    ("/r3" :> [dirs |-> <<>>, files |-> <<>>])

\* hashlib.sha256 of a content: equal contents have equal digests
DIGEST ==
    ("zipA" :> "sha_zipA") @@ ("zipB" :> "sha_zipB") @@ ("superuser" :> "sha_su") @@ ("ok" :> "sha_ok") @@
    ("http://evil.test" :> "sha_http") @@ ("Runtime.getRuntime" :> "sha_rt")

\* scanner.py 46-51
Sha256Raises(path) == ~FILES[path].readable
sha256_file(path) == DIGEST[FILES[path].content]

(* ------------------------------ list_targets -------------------------- *)

TARGET_EXTS == <<".apk", ".doc", ".docx", ".zip", ".jar", ".rar", ".xls",
                 ".xlsx", ".pdf", ".exe", ".bin">>
TEXT_EXTS == <<".xml", ".txt", ".properties", ".json", ".manifest", ".smali",
               ".dex", ".js">>

\* name.lower().endswith(exts) for a tuple of suffixes
LowerEndsWith(name, exts) ==
    LET lowered == Lower(Chars[name])
    IN  \E i \in DOMAIN exts : EndsWith(lowered, Chars[exts[i]])

\* scanner.py 103
IsTarget(path) == LowerEndsWith(FILES[path].name, TARGET_EXTS)

\* os.walk(root), top-down: the directories in the order they are visited
RECURSIVE Walk(_)
Walk(dirs) ==
    IF dirs = <<>> THEN <<>>
    ELSE <<Head(dirs)>> \o Walk(TREE[Head(dirs)].dirs) \o Walk(Tail(dirs))

RECURSIVE TargetsOf(_)
TargetsOf(dirs) ==
    IF dirs = <<>> THEN <<>>
    ELSE SelectSeq(TREE[Head(dirs)].files, IsTarget) \o TargetsOf(Tail(dirs))

\* scanner.py 98-104: the paths yielded, in order
list_targets(root) == TargetsOf(Walk(<<root>>))

(* ------------------------------ quick_static_checks ------------------- *)

\* the mutant: a substring is appended each time it is found
RECURSIVE SubstringPass_dup(_, _, _)
SubstringPass_dup(i, data, found) ==
    IF i > Len(SUSPICIOUS_SUBSTRINGS) THEN found
    ELSE LET s == SUSPICIOUS_SUBSTRINGS[i]
         IN  SubstringPass_dup(i + 1, data,
                 IF Contains(data, Chars[s]) THEN Append(found, s) ELSE found)

\* scanner.py 68-70 and 83-85
RECURSIVE SubstringPass(_, _, _)
SubstringPass(i, data, found) ==
    IF i > Len(SUSPICIOUS_SUBSTRINGS) THEN found
    ELSE LET s == SUSPICIOUS_SUBSTRINGS[i]
         IN  SubstringPass(i + 1, data,
                 IF Contains(data, Chars[s]) /\ ~InList(s, found)
                 THEN Append(found, s) ELSE found)

\* scanner.py 72-77 and 86-91
RECURSIVE PatternPass(_, _, _)
PatternPass(items, data, matched) ==
    IF items = <<>> THEN matched
    ELSE LET pname == Head(items)[1]
             cre == Head(items)[2]
         IN  PatternPass(Tail(items), data,
                 IF Search(cre, data) /\ ~InList(pname, matched)
                 THEN Append(matched, pname) ELSE matched)

\* both passes over one decoded, lowercased text, with the database sigs
MatchingPass(result, data, sigs) ==
    [result EXCEPT
        !.suspicious_strings = SubstringPass(1, data, @),
        !.matched_patterns = PatternPass(CompiledPatterns(sigs), data, @)]

\* z.read(name).decode(errors="ignore").lower(), and f.read(200000)...
TextOf(bytes) == Lower(Decode(Chars[bytes]))

\* scanner.py 62-77: one entry of the archive
EntryPass(result, entry, sigs) ==
    IF ~LowerEndsWith(entry.name, TEXT_EXTS) THEN result
    ELSE IF ~entry.readable THEN result
    ELSE MatchingPass(result, TextOf(entry.bytes), sigs)

RECURSIVE ZipPass(_, _, _)
ZipPass(entries, result, sigs) ==
    IF entries = <<>> THEN result
    ELSE ZipPass(Tail(entries), EntryPass(result, Head(entries), sigs), sigs)

\* zipfile.is_zipfile(path): False for a file it cannot open
IsZipfile(f) == f.zip /\ f.readable

NEW_RESULT ==
    [size |-> None, suspicious_strings |-> <<>>, matched_patterns |-> <<>>,
     error |-> None]

\* scanner.py 54-56: the result once the size is known, or the error
SizedResult(f) ==
    IF f.stat THEN [NEW_RESULT EXCEPT !.size = Some(f.size)]
    ELSE [NEW_RESULT EXCEPT !.error = Some("FileNotFoundError")]

\* scanner.py 53-96, reading the database sigs throughout
quick_static_checks(path, sigs) ==
    LET f == FILES[path]
    IN  IF ~f.stat THEN SizedResult(f)
        ELSE IF IsZipfile(f) THEN ZipPass(f.entries, SizedResult(f), sigs)
        ELSE IF ~f.readable THEN SizedResult(f)
        ELSE MatchingPass(SizedResult(f),
                 Lower(Decode(ReadChunk(Chars[f.content], ReadLimit))), sigs)

(* ------------------------------ the scans ----------------------------- *)

\* Python truth of sigs.get(sha256): None and the empty dict are false
Truthy(meta) == meta # None /\ meta[1] # <<>>

\* the mutant: substring hits are looked at before pattern hits
Severity_swapped(match, static) ==
    IF Truthy(match)
    THEN IF Has(match[1], "severity") THEN DictGet(match[1], "severity")[1]
         ELSE "high"
    ELSE IF static.suspicious_strings # <<>> THEN "medium"
    ELSE IF static.matched_patterns # <<>> THEN "high"
    ELSE "clean"

\* scanner.py 120-129 and 143-150
Severity(match, static) ==
    IF Truthy(match)
    THEN IF Has(match[1], "severity") THEN DictGet(match[1], "severity")[1]
         ELSE "high"
    ELSE IF static.matched_patterns # <<>> THEN "high"
    ELSE IF static.suspicious_strings # <<>> THEN "medium"
    ELSE "clean"

NEW_ITEM(path) ==
    [path |-> path, sha256 |-> None, signature_match |-> None, static |-> None,
     severity |-> None, error |-> None,
     keys |-> {"path", "sha256", "signature_match", "static"}]

\* scanner.py 114-116 and 139-141
SignatureMatch(sigs, sha256) ==
    IF Truthy(DictGet(sigs, sha256)) THEN DictGet(sigs, sha256) ELSE None

\* scanner.py 119-129: the item once hashed, matched and inspected
FinishItem(item, static) ==
    [item EXCEPT !.static = Some(static),
                 !.severity = Some(Severity(item.signature_match, static)),
                 !.keys = @ \cup {"severity"}]

\* scanner.py 130-131
ErrorItem(item, message) ==
    [item EXCEPT !.error = Some(message), !.keys = @ \cup {"error"}]

\* scanner.py 110-132: one file; lookups in sigs, inspection with glob
ScanItem(path, sigs, glob) ==
    IF Sha256Raises(path) THEN ErrorItem(NEW_ITEM(path), "PermissionError")
    ELSE LET hashed == [NEW_ITEM(path) EXCEPT
                           !.sha256 = Some(sha256_file(path)),
                           !.signature_match =
                               SignatureMatch(sigs, sha256_file(path))]
         IN  FinishItem(hashed, quick_static_checks(path, glob))

\* the mutant: the first error ends the scan
RECURSIVE ScanAll_stop(_, _, _)
ScanAll_stop(paths, sigs, glob) ==
    IF paths = <<>> THEN <<>>
    ELSE IF Sha256Raises(Head(paths)) THEN <<ScanItem(Head(paths), sigs, glob)>>
    ELSE <<ScanItem(Head(paths), sigs, glob)>> \o ScanAll_stop(Tail(paths), sigs, glob)

\* scanner.py 109-132: the loop
RECURSIVE ScanAll(_, _, _)
ScanAll(paths, sigs, glob) ==
    IF paths = <<>> THEN <<>>
    ELSE <<ScanItem(Head(paths), sigs, glob)>> \o ScanAll(Tail(paths), sigs, glob)

\* scanner.py 152-153: the result of scan_file_json on an exception
FileErrorItem(path, message) ==
    [NEW_ITEM(path) EXCEPT !.error = Some(message), !.keys = {"path", "error"}]

\* scanner.py 135-153: the one item of the list returned
ScanFileItem(path, sigs, glob) ==
    IF Sha256Raises(path) THEN FileErrorItem(path, "PermissionError")
    ELSE ScanItem(path, sigs, glob)

(* ------------------------------ the inputs ---------------------------- *)

META_EVIL == << <<"severity", "high">>, <<"name", "EvilSample">> >>
META_LOW == << <<"severity", "low">> >>
META_NAME == << <<"name", "NoSeverity">> >>
META_EMPTY == <<>>
META_SET == << <<"severity", "high">>, <<"tags", PY_SET>> >>

DOC_A ==
    << <<"sha_http", META_EVIL>>,
       <<"_patterns", << <<"r_evil", "evil">>, <<"r_paren", "(">>,
                         <<"r_dex", "DEX">>, <<"r_set", "[a">> >> >> >>
DOC_B == << <<"sha_zipA", META_EMPTY>>, <<"sha_ok", META_NAME>> >>

\* The signature file when the module is imported
INIT_FILES ==
    { MISSING_FILE,
      TextFile("rw", FALSE, <<>>, 1),
      TextFile("rw", TRUE, DOC_A, JsonTextLen(DOC_A)),
      TextFile("ro", TRUE, DOC_A, JsonTextLen(DOC_A)),
      TextFile("none", TRUE, DOC_A, JsonTextLen(DOC_A)),
      TextFile("rw", TRUE, DOC_B, JsonTextLen(DOC_B)) }

ADD_DIGESTS == {"sha_http", "sha_ok"}
ADD_METAS == {META_LOW, META_NAME, META_EMPTY, META_SET}
ROOTS == {"/r1", "/r2", "/r3"}

(* ------------------------------ sequential runs ----------------------- *)

Threads == {"add1", "add2", "reload", "scan"}

Call(op, arg, meta, ok, out) ==
    [op |-> op, arg |-> arg, meta |-> meta, ok |-> ok,
     preFile |-> sigfile, preSigs |-> SIGNATURES, out |-> out]

NoThreads ==
    /\ pc = [t \in Threads |-> "off"]
    /\ loc = <<>>

\* scanner.py 44: SIGNATURES = load_signatures() at import
Init ==
    /\ sigfile \in INIT_FILES
    /\ SIGNATURES = load_signatures(sigfile)
    /\ last = Call("import", "", <<>>, TRUE, <<>>)
    /\ added = None
    /\ nops = 0
    /\ NoThreads

\* scanner.py 156-159
reload_signatures ==
    /\ nops < MaxOps
    /\ SIGNATURES' = load_signatures(sigfile)
    /\ last' = Call("reload_signatures", "", <<>>, TRUE, <<>>)
    /\ nops' = nops + 1
    /\ UNCHANGED <<sigfile, added, pc, loc>>

\* scanner.py 162-174
add_signature(sha256, meta) ==
    /\ nops < MaxOps
    /\ sigfile' = AddFile(sigfile, sha256, meta)
    /\ SIGNATURES' = IF AddReturns(sigfile, sha256, meta)
                     THEN load_signatures(sigfile')
                     ELSE SIGNATURES
    /\ last' = Call("add_signature", sha256, meta,
                    AddReturns(sigfile, sha256, meta), <<>>)
    /\ added' = IF AddReturns(sigfile, sha256, meta)
                THEN Some([sha256 |-> sha256, meta |-> meta,
                           prev |-> IF sigfile.exists
                                    THEN DictGet(sigfile.doc, sha256) ELSE None])
                ELSE None
    /\ nops' = nops + 1
    /\ UNCHANGED <<pc, loc>>

\* scanner.py 106-133; sigs = SIGNATURES (108) and the global that
\* quick_static_checks reads are the same database in a sequential run
scan_folder_json(root) ==
    /\ last' = Call("scan_folder_json", root, <<>>, TRUE,
                    ScanAll(list_targets(root), SIGNATURES, SIGNATURES))
    /\ UNCHANGED <<sigfile, SIGNATURES, added, nops, pc, loc>>

\* scanner.py 135-153
scan_file_json(path) ==
    /\ last' = Call("scan_file_json", path, <<>>, TRUE,
                    <<ScanFileItem(path, SIGNATURES, SIGNATURES)>>)
    /\ UNCHANGED <<sigfile, SIGNATURES, added, nops, pc, loc>>

Next ==
    \/ reload_signatures
    \/ \E sha256 \in ADD_DIGESTS, meta \in ADD_METAS : add_signature(sha256, meta)
    \/ \E root \in ROOTS : scan_folder_json(root)
    \/ \E path \in DOMAIN FILES : scan_file_json(path)

Spec == Init /\ [][Next]_vars

(* ------------------------------ concurrent runs ----------------------- *)

\* The callers' threads (main.py 49-59, service.py 7-20): two threads each
\* in one add_signature call, one in reload_signatures, one in
\* scan_folder_json. A step is what a thread does between two accesses of
\* the shared file or of the global SIGNATURES.
ADDERS == {"add1", "add2"}
LOADERS == {"add1", "add2", "reload"}
ADD_ARGS ==
    ("add1" :> [sha256 |-> "sha_ok", meta |-> META_LOW]) @@
    ("add2" :> [sha256 |-> "sha_su", meta |-> META_NAME])
SCAN_ROOT == "/r2"

CONC_FILES ==
    { TextFile("rw", TRUE, DOC_A, JsonTextLen(DOC_A)),
      TextFile("ro", TRUE, DOC_A, JsonTextLen(DOC_A)) }

InitConc ==
    /\ sigfile \in CONC_FILES
    /\ SIGNATURES = load_signatures(sigfile)
    /\ last = Call("import", "", <<>>, TRUE, <<>>)
    /\ added = None
    /\ nops = 0
    /\ pc = [t \in Threads |-> IF t = "reload" THEN "load" ELSE "start"]
    /\ loc = [t \in Threads |->
                 IF t = "scan"
                 THEN [sigs |-> <<>>, paths |-> <<>>,
                       item |-> NEW_ITEM(""), raw |-> FALSE, entries |-> <<>>,
                       result |-> NEW_RESULT, pats |-> {}, out |-> <<>>,
                       used |-> <<>>]
                 ELSE [data |-> <<>>, db |-> <<>>, ret |-> "none"]]

Returns(t, value) ==
    /\ pc' = [pc EXCEPT ![t] = "done"]
    /\ loc' = [loc EXCEPT ![t].ret = value]

\* scanner.py 164-168: read the document, set data[sha256]
add_read(t) ==
    /\ pc[t] = "start"
    /\ IF AddReadRaises(sigfile)
       THEN Returns(t, "False")
       ELSE /\ pc' = [pc EXCEPT ![t] = "open"]
            /\ loc' = [loc EXCEPT ![t].data =
                          AddData(sigfile, ADD_ARGS[t].sha256, ADD_ARGS[t].meta)]
    /\ UNCHANGED <<sigfile, SIGNATURES, last, added, nops>>

\* scanner.py 169: open(SIGFILE, "w")
add_open(t) ==
    /\ pc[t] = "open"
    /\ IF OpenWriteRaises(sigfile)
       THEN Returns(t, "False") /\ UNCHANGED sigfile
       ELSE /\ sigfile' = Truncated(sigfile)
            /\ pc' = [pc EXCEPT ![t] = "dump"]
            /\ UNCHANGED loc
    /\ UNCHANGED <<SIGNATURES, last, added, nops>>

\* scanner.py 170: json.dump and the close of the file
add_dump(t) ==
    /\ pc[t] = "dump"
    /\ sigfile' = WriteAtStart(sigfile, loc[t].data)
    /\ IF JsonDumpRaises(loc[t].data)
       THEN Returns(t, "False")
       ELSE pc' = [pc EXCEPT ![t] = "load"] /\ UNCHANGED loc
    /\ UNCHANGED <<SIGNATURES, last, added, nops>>

\* scanner.py 158, right-hand side: load_signatures()
sig_load(t) ==
    /\ pc[t] = "load"
    /\ pc' = [pc EXCEPT ![t] = "install"]
    /\ loc' = [loc EXCEPT ![t].db = load_signatures(sigfile)]
    /\ UNCHANGED <<sigfile, SIGNATURES, last, added, nops>>

\* scanner.py 158-159 (and 172): SIGNATURES = ...; return True
sig_install(t) ==
    /\ pc[t] = "install"
    /\ SIGNATURES' = loc[t].db
    /\ Returns(t, "True")
    /\ UNCHANGED <<sigfile, last, added, nops>>

ScanLoc == loc["scan"]

\* scanner.py 107-109: out = [], sigs = SIGNATURES, the enumeration
scan_begin ==
    /\ pc["scan"] = "start"
    /\ pc' = [pc EXCEPT !["scan"] = "hash"]
    /\ loc' = [loc EXCEPT !["scan"].sigs = SIGNATURES,
                          !["scan"].paths = list_targets(SCAN_ROOT)]
    /\ UNCHANGED <<sigfile, SIGNATURES, last, added, nops>>

\* scanner.py 110-116 (and 130-133): hash the next file and look its digest
\* up in sigs; an error ends the file; the end of the paths ends the scan
scan_hash ==
    /\ pc["scan"] = "hash"
    /\ IF ScanLoc.paths = <<>>
       THEN pc' = [pc EXCEPT !["scan"] = "done"] /\ UNCHANGED loc
       ELSE LET p == Head(ScanLoc.paths)
            IN  IF Sha256Raises(p)
                THEN /\ loc' = [loc EXCEPT
                           !["scan"].paths = Tail(@),
                           !["scan"].out =
                               Append(@, ErrorItem(NEW_ITEM(p), "PermissionError")),
                           !["scan"].used =
                               Append(@, [hash |-> ScanLoc.sigs, pats |-> {}])]
                     /\ UNCHANGED pc
                ELSE /\ loc' = [loc EXCEPT
                           !["scan"].item =
                               [NEW_ITEM(p) EXCEPT
                                   !.sha256 = Some(sha256_file(p)),
                                   !.signature_match =
                                       SignatureMatch(ScanLoc.sigs, sha256_file(p))],
                           !["scan"].raw = FILES[p].stat /\ ~IsZipfile(FILES[p])
                                               /\ FILES[p].readable,
                           !["scan"].entries =
                               IF FILES[p].stat /\ IsZipfile(FILES[p])
                               THEN FILES[p].entries ELSE <<>>,
                           !["scan"].result = SizedResult(FILES[p]),
                           !["scan"].pats = {}]
                     /\ pc' = [pc EXCEPT !["scan"] = "static"]
    /\ UNCHANGED <<sigfile, SIGNATURES, last, added, nops>>

\* scanner.py 60-77 for one entry of an archive, or 81-91 for the chunk of
\* another file: the global SIGNATURES is read at 72, or at 86
scan_static ==
    /\ pc["scan"] = "static"
    /\ ScanLoc.raw \/ ScanLoc.entries # <<>>
    /\ IF ScanLoc.raw
       THEN loc' = [loc EXCEPT
                !["scan"].result =
                    MatchingPass(@,
                        Lower(Decode(ReadChunk(
                            Chars[FILES[ScanLoc.item.path].content], ReadLimit))),
                        SIGNATURES),
                !["scan"].pats = @ \cup {SIGNATURES},
                !["scan"].raw = FALSE]
       ELSE loc' = [loc EXCEPT
                !["scan"].result = EntryPass(@, Head(ScanLoc.entries), SIGNATURES),
                !["scan"].pats =
                    IF /\ LowerEndsWith(Head(ScanLoc.entries).name, TEXT_EXTS)
                       /\ Head(ScanLoc.entries).readable
                    THEN @ \cup {SIGNATURES} ELSE @,
                !["scan"].entries = Tail(@)]
    /\ UNCHANGED <<sigfile, SIGNATURES, last, added, nops, pc>>

\* scanner.py 119-132: the severity, and out.append(item)
scan_finish ==
    /\ pc["scan"] = "static"
    /\ ~ScanLoc.raw /\ ScanLoc.entries = <<>>
    /\ loc' = [loc EXCEPT
            !["scan"].paths = Tail(@),
            !["scan"].out = Append(@, FinishItem(ScanLoc.item, ScanLoc.result)),
            !["scan"].used =
                Append(@, [hash |-> ScanLoc.sigs, pats |-> ScanLoc.pats])]
    /\ pc' = [pc EXCEPT !["scan"] = "hash"]
    /\ UNCHANGED <<sigfile, SIGNATURES, last, added, nops>>

NextConc ==
    \/ \E t \in ADDERS : add_read(t)
    \/ \E t \in ADDERS : add_open(t)
    \/ \E t \in ADDERS : add_dump(t)
    \/ \E t \in LOADERS : sig_load(t)
    \/ \E t \in LOADERS : sig_install(t)
    \/ scan_begin
    \/ scan_hash
    \/ scan_static
    \/ scan_finish

SpecConc == InitConc /\ [][NextConc]_vars

\* C3: for each result of a scan that runs while add_signature and
\* reload_signatures run, the database the digest was looked up in and the
\* databases whose compiled patterns quick_static_checks used are one and
\* the same loaded database.
C3_OneDatabasePerResult ==
    \A i \in DOMAIN ScanLoc.used :
        ScanLoc.used[i].pats \subseteq {ScanLoc.used[i].hash}

\* C10: when the two add_signature calls, for distinct digests, have both
\* returned True (no reload_signatures call of another thread involved),
\* the document on disk and the active database hold both digests.
C10_NoAddIsLost ==
    (/\ \A t \in ADDERS : pc[t] = "done" /\ loc[t].ret = "True"
     /\ pc["reload"] = "load") =>
        /\ sigfile.complete
        /\ \A t \in ADDERS :
               /\ DictGet(sigfile.doc, ADD_ARGS[t].sha256) = Some(ADD_ARGS[t].meta)
               /\ DictGet(SIGNATURES, ADD_ARGS[t].sha256) = Some(ADD_ARGS[t].meta)

(* ------------------------------ properties ---------------------------- *)

SCAN_OPS == {"scan_folder_json", "scan_file_json"}

\* the keys of a database or document that are digests
DigestKeys(d) == DictKeys(d) \ {"_patterns", "_compiled_patterns"}

\* the severity the classification policy gives a record
RecordSeverity(rec) ==
    IF \E i \in DOMAIN rec : rec[i][1] = "severity"
    THEN rec[CHOOSE i \in DOMAIN rec : rec[i][1] = "severity"][2]
    ELSE "high"

\* C1: every scanned file whose digest is a key of the active database is
\* reported with signature_match equal to the record stored for the digest
\* and with the record's severity ("high" when it has none), whatever the
\* static findings are.
C1_SignatureMatchDominates ==
    last.op \in SCAN_OPS =>
        \A i \in DOMAIN last.out :
            LET item == last.out[i]
            IN  (item.sha256 # None /\ item.sha256[1] \in DigestKeys(SIGNATURES)) =>
                    LET rec == DictGet(SIGNATURES, item.sha256[1])[1]
                    IN  /\ item.signature_match = Some(rec)
                        /\ item.severity = Some(RecordSeverity(rec))

\* C2: a scanned file whose digest is not in the database and whose scan
\* raises no error has severity "high" when matched_patterns is non-empty,
\* else "medium" when suspicious_strings is non-empty, else "clean".
C2_HeuristicSeverity ==
    last.op \in SCAN_OPS =>
        \A i \in DOMAIN last.out :
            LET item == last.out[i]
            IN  (/\ item.error = None
                 /\ item.sha256 # None
                 /\ item.sha256[1] \notin DigestKeys(SIGNATURES)) =>
                    /\ item.static # None
                    /\ item.signature_match = None
                    /\ item.severity =
                         Some(IF Len(item.static[1].matched_patterns) > 0 THEN "high"
                              ELSE IF Len(item.static[1].suspicious_strings) > 0
                                   THEN "medium"
                              ELSE "clean")

\* C2 witness: one folder scan reports, for files absent from the database,
\* a "high" from a pattern hit (with substring hits too), a "medium" and a
\* "clean".
C2_Witness ==
    /\ last.op = "scan_folder_json"
    /\ \E i \in DOMAIN last.out :
           /\ last.out[i].sha256 # None
           /\ last.out[i].sha256[1] \notin DigestKeys(SIGNATURES)
           /\ Len(last.out[i].static[1].matched_patterns) > 0
           /\ Len(last.out[i].static[1].suspicious_strings) > 0
           /\ last.out[i].severity = Some("high")
    /\ \A sev \in {"medium", "clean"} : \E i \in DOMAIN last.out :
           /\ last.out[i].sha256 # None
           /\ last.out[i].sha256[1] \notin DigestKeys(SIGNATURES)
           /\ last.out[i].severity = Some(sev)

\* C4: an add_signature that returns False leaves the database in memory
\* and the file unchanged, so that a reload gives the database a reload
\* gave before the call.
C4_FailedAddChangesNothing ==
    (last.op = "add_signature" /\ ~last.ok) =>
        /\ SIGNATURES = last.preSigs
        /\ load_signatures(sigfile) = load_signatures(last.preFile)

\* C5: after add_signature(d, m) returned True, and after the reloads that
\* follow it, the active database maps d to exactly m, whatever was stored
\* for d before and whatever calls came before.
C5_AddedIsLookedUp ==
    added # None =>
        DictGet(SIGNATURES, added[1].sha256) = Some(added[1].meta)

\* C5 witness: a reload after a successful add that replaced another record
C5_Witness ==
    /\ added # None
    /\ last.op = "reload_signatures"
    /\ added[1].prev # None
    /\ added[1].prev # Some(added[1].meta)
    /\ DictGet(SIGNATURES, added[1].sha256) = Some(added[1].meta)

\* the document add_signature found: the file's, or {} for a missing file
PreDoc == IF last.preFile.exists THEN last.preFile.doc ELSE <<>>

\* C6: a successful add_signature(d, m) leaves every other top-level entry
\* of the document as it was (_patterns and the records of the other
\* digests), and the reloaded compiled patterns have the same rule names.
C6_AddKeepsOtherEntries ==
    (last.op = "add_signature" /\ last.ok) =>
        /\ sigfile.complete
        /\ DictKeys(sigfile.doc) = DictKeys(PreDoc) \cup {last.arg}
        /\ \A k \in DictKeys(PreDoc) \ {last.arg} :
               DictGet(sigfile.doc, k) = DictGet(PreDoc, k)
        /\ DictKeys(CompiledPatterns(SIGNATURES)) =
               DictKeys(CompiledPatterns(last.preSigs))

\* C6 witness: a successful add to a document that holds _patterns (with
\* rules that compile) and the record of another digest
C6_Witness ==
    /\ last.op = "add_signature"
    /\ last.ok
    /\ Has(PreDoc, "_patterns")
    /\ DigestKeys(PreDoc) \ {last.arg} # {}
    /\ DictKeys(CompiledPatterns(SIGNATURES)) # {}

\* C7: scan_folder_json returns one result per path of list_targets(root),
\* in that order; a file whose hashing raises has a result with an error,
\* and the paths after it are scanned.
C7_OneResultPerTarget ==
    last.op = "scan_folder_json" =>
        LET targets == list_targets(last.arg)
        IN  /\ Len(last.out) = Len(targets)
            /\ \A i \in DOMAIN last.out :
                   /\ last.out[i].path = targets[i]
                   /\ Sha256Raises(targets[i]) => last.out[i].error # None
                   /\ ~Sha256Raises(targets[i]) =>
                          /\ last.out[i].error = None
                          /\ last.out[i].severity # None

\* C7 witness: a scan with an unreadable file followed by a scanned file
C7_Witness ==
    /\ last.op = "scan_folder_json"
    /\ \E i, j \in DOMAIN last.out :
           /\ i < j
           /\ last.out[i].error # None
           /\ last.out[j].error = None
           /\ last.out[j].severity # None

\* the texts quick_static_checks runs the matching pass on, for a file
InspectedTexts(path) ==
    LET f == FILES[path]
    IN  IF f.zip
        THEN {Lower(Decode(Chars[f.entries[i].bytes])) :
                 i \in {k \in DOMAIN f.entries :
                           /\ f.entries[k].readable
                           /\ \E e \in {".xml", ".txt", ".properties", ".json",
                                        ".manifest", ".smali", ".dex", ".js"} :
                                  EndsWith(Lower(Chars[f.entries[k].name]), Chars[e])}}
        ELSE {Lower(Decode(Chars[f.content]))}

NoDuplicates(l) == \A i, j \in DOMAIN l : l[i] = l[j] => i = j
Elements(l) == {l[i] : i \in DOMAIN l}

\* C8: in every StaticFindings, suspicious_strings and matched_patterns hold
\* no entry twice, and each is the union of the hits over the inspected
\* entries.
C8_FindingsAreSets ==
    last.op \in SCAN_OPS =>
        \A i \in DOMAIN last.out :
            last.out[i].static # None =>
                LET static == last.out[i].static[1]
                    texts == InspectedTexts(last.out[i].path)
                    rules == CompiledPatterns(SIGNATURES)
                IN  /\ NoDuplicates(static.suspicious_strings)
                    /\ NoDuplicates(static.matched_patterns)
                    /\ Elements(static.suspicious_strings) =
                         {s \in Elements(SUSPICIOUS_SUBSTRINGS) :
                             \E t \in texts : Contains(t, Chars[s])}
                    /\ Elements(static.matched_patterns) =
                         {rules[k][1] : k \in {n \in DOMAIN rules :
                             \E t \in texts : Search(rules[n][2], t)}}

\* C8 witness: an archive where the same substring hits in two entries and
\* the same pattern hits in two entries
C8_Witness ==
    /\ last.op \in SCAN_OPS
    /\ \E i \in DOMAIN last.out :
           /\ last.out[i].static # None
           /\ \E s \in Elements(last.out[i].static[1].suspicious_strings) :
                  Cardinality({t \in InspectedTexts(last.out[i].path) :
                                  Contains(t, Chars[s])}) > 1
           /\ \E k \in DOMAIN CompiledPatterns(SIGNATURES) :
                  /\ InList(CompiledPatterns(SIGNATURES)[k][1],
                            last.out[i].static[1].matched_patterns)
                  /\ Cardinality({t \in InspectedTexts(last.out[i].path) :
                         Search(CompiledPatterns(SIGNATURES)[k][2], t)}) > 1

\* the rules of a document: _patterns, or none
RulesOf(doc) == IF Has(doc, "_patterns") THEN DictGet(doc, "_patterns")[1] ELSE <<>>

\* C9: after a load (at import, by reload_signatures or by a successful
\* add_signature), for a document that can be read the compiled patterns
\* are exactly the rules whose source compiles and every entry of the
\* document is loaded; for a missing, unreadable or non-JSON file the
\* database is empty.
C9_LoadSkipsBadPatterns ==
    (last.op \in {"import", "reload_signatures"}
        \/ (last.op = "add_signature" /\ last.ok)) =>
        IF sigfile.exists /\ sigfile.perm # "none" /\ sigfile.complete
        THEN /\ \A k \in DictKeys(sigfile.doc) :
                    DictGet(SIGNATURES, k) = DictGet(sigfile.doc, k)
             /\ DictKeys(CompiledPatterns(SIGNATURES)) =
                    {RulesOf(sigfile.doc)[i][1] :
                        i \in {n \in DOMAIN RulesOf(sigfile.doc) :
                                  RulesOf(sigfile.doc)[n][2] \notin BAD_REGEX}}
             /\ \A i \in DOMAIN RulesOf(sigfile.doc) :
                    RulesOf(sigfile.doc)[i][2] \notin BAD_REGEX =>
                        DictGet(CompiledPatterns(SIGNATURES), RulesOf(sigfile.doc)[i][1])
                            = Some(RulesOf(sigfile.doc)[i][2])
        ELSE /\ DigestKeys(SIGNATURES) = {}
             /\ CompiledPatterns(SIGNATURES) = <<>>

\* C9 witness: a reload of a document with rules that compile, rules that do
\* not, and a digest entry
C9_Witness ==
    /\ last.op = "reload_signatures"
    /\ sigfile.exists /\ sigfile.perm # "none" /\ sigfile.complete
    /\ \E i \in DOMAIN RulesOf(sigfile.doc) : RulesOf(sigfile.doc)[i][2] \in BAD_REGEX
    /\ DictKeys(CompiledPatterns(SIGNATURES)) # {}
    /\ DigestKeys(SIGNATURES) # {}

====
